---- MODULE Spec2Model ----
(***************************************************************************)
(* A model of qccodec's Orca parser module (qccodec/parsers/orca.py):      *)
(* the artifact generator iter_files, the extraction routine parse_energy, *)
(* and the loop that consumes the generator and runs the routine that is   *)
(* registered for each artifact's file type.                               *)
(*                                                                         *)
(* Encoding of Python values.  An Optional value is None == <<>> or        *)
(* Some(v) == <<v>>.  A str is a sequence of tokens; the fixed literal of  *)
(* the energy regex, "FINAL ENERGY: ", is one token (it has no proper      *)
(* border, so its occurrences in a text never overlap), every other token  *)
(* is one character.  A float is a decimal <<n, e>> standing for           *)
(* n * 10^(-e), kept in lowest terms (e minimal), so that equal numbers    *)
(* are equal values.                                                       *)
(***************************************************************************)
EXTENDS Integers, Sequences, FiniteSets

VARIABLES
    stdout,     \* iter_files argument: None or Some(text)
    directory,  \* iter_files argument: None or Some(path)
    fs,         \* what the file system holds at the one path of the model
    gen_pc,     \* where the generator iter_files is suspended
    yielded,    \* the artifacts the generator has yielded, in order
    steps,      \* how many times the generator has been advanced (next())
    pc,         \* where the consumer of the generator is
    calls,      \* the invocations of parse_energy: [contents, outcome]
    fields,     \* the fields extracted so far: [target, value]
    error       \* None, or Some(name of the exception that ended the request)

vars == <<stdout, directory, fs, gen_pc, yielded, steps, pc, calls, fields, error>>

(***************************************************************************)
(* Bounds of the model.                                                    *)
(***************************************************************************)
\* longest stdout text, in tokens, of a request that runs the generator
MaxStdoutLen == 2
\* longest text, in tokens, given to parse_energy when it is called directly
MaxLen == 5
\* how many times parse_energy is called again on one text
MaxCalls == 2

(***************************************************************************)
(* Python values.                                                          *)
(***************************************************************************)
None == <<>>
Some(v) == <<v>>

\* OrcaFileType
STDOUT == "stdout"
DIRECTORY == "directory"
OrcaFileType == {STDOUT, DIRECTORY}

\* the literal part of the regex of parse_energy, one token
Marker == "FINAL ENERGY: "
Digits == {"0", "1"}
Alphabet == {Marker, "-", ".", "0", "1", "E", " "}

RECURSIVE TextsOfLen(_)
TextsOfLen(n) ==
    IF n = 0 THEN {<<>>}
    ELSE {Append(t, c) : t \in TextsOfLen(n - 1), c \in Alphabet}

TextsUpTo(n) == UNION {TextsOfLen(k) : k \in 0..n}

(***************************************************************************)
(* float(): the decimal literal of the regex's group 1, -?\d+(?:\.\d+)?,   *)
(* converted to a number.                                                  *)
(***************************************************************************)
DigitVal(c) == IF c = "1" THEN 1 ELSE 0

\* the digits of ds read left to right, most significant first
RECURSIVE Horner(_, _)
Horner(ds, acc) ==
    IF ds = <<>> THEN acc
    ELSE Horner(Tail(ds), 10 * acc + DigitVal(Head(ds)))

\* n * 10^(-e) in lowest terms: 1.0 and 1 are the same float
RECURSIVE Normalize(_, _)
Normalize(n, e) ==
    IF e > 0 /\ n % 10 = 0 THEN Normalize(n \div 10, e - 1) ELSE <<n, e>>

\* the index of the first "." of g, or 0
RECURSIVE DotPos(_, _)
DotPos(g, i) ==
    IF i > Len(g) THEN 0
    ELSE IF g[i] = "." THEN i
    ELSE DotPos(g, i + 1)

float(g) ==
    LET neg  == g # <<>> /\ g[1] = "-"
        body == IF neg THEN Tail(g) ELSE g
        dot  == DotPos(body, 1)
        int  == IF dot = 0 THEN body ELSE SubSeq(body, 1, dot - 1)
        frac == IF dot = 0 THEN <<>> ELSE SubSeq(body, dot + 1, Len(body))
        mag  == Normalize(Horner(int \o frac, 0), Len(frac))
    IN  IF neg THEN <<0 - mag[1], mag[2]>> ELSE mag

(***************************************************************************)
(* The regex of parse_energy, FINAL ENERGY: (-?\d+(?:\.\d+)?), matched as  *)
(* Python's re does: greedy, leftmost.                                     *)
(***************************************************************************)
\* the first index from j on that holds no digit
RECURSIVE DigitRunEnd(_, _)
DigitRunEnd(s, j) ==
    IF j <= Len(s) /\ s[j] \in Digits THEN DigitRunEnd(s, j + 1) ELSE j

\* the index after the match of the regex that starts at i, or 0 when the
\* regex does not match there
MatchEnd(s, i) ==
    IF s[i] # Marker THEN 0
    ELSE LET a == IF i + 1 <= Len(s) /\ s[i + 1] = "-" THEN i + 2 ELSE i + 1
             b == DigitRunEnd(s, a)
             c == IF b <= Len(s) /\ s[b] = "." THEN DigitRunEnd(s, b + 1) ELSE b
         IN  IF b = a THEN 0
             ELSE IF c > b + 1 THEN c
             ELSE b

\* a match object: where the match starts, and the index after it
NoMatch == [found |-> FALSE, start |-> 0, end |-> 0]

RECURSIVE SearchFrom(_, _)
SearchFrom(s, i) ==
    IF i > Len(s) THEN NoMatch
    ELSE IF MatchEnd(s, i) # 0
         THEN [found |-> TRUE, start |-> i, end |-> MatchEnd(s, i)]
    ELSE SearchFrom(s, i + 1)

\* utils.re_search: re.search, whose absent match raises MatchNotFoundError
\* (found = FALSE stands for the raise)
re_search(s) == SearchFrom(s, 1)

\* utils.re_finditer: every non-overlapping match, left to right
RECURSIVE FindFrom(_, _)
FindFrom(s, i) ==
    IF i > Len(s) THEN <<>>
    ELSE IF MatchEnd(s, i) # 0
         THEN <<[found |-> TRUE, start |-> i, end |-> MatchEnd(s, i)]>>
              \o FindFrom(s, MatchEnd(s, i))
    ELSE FindFrom(s, i + 1)

re_finditer(s) == FindFrom(s, 1)

\* match.group(1)
Group1(s, m) == SubSeq(s, m.start + 1, m.end - 1)

(***************************************************************************)
(* parse_energy, and what a call of it ends in.                            *)
(***************************************************************************)
Return(v) == [kind |-> "return", value |-> v, error |-> ""]
Raise(e) == [kind |-> "raise", value |-> None, error |-> e]

\* a routine that takes the last of the matches instead of the first
parse_energy_last(contents) ==
    LET ms == re_finditer(contents)
    IN  IF ms = <<>> THEN Raise("MatchNotFoundError")
        ELSE Return(float(Group1(contents, ms[Len(ms)])))

\* a routine that converts the unit of what it read
parse_energy_converted(contents) ==
    LET m == re_search(contents)
    IN  IF ~m.found THEN Raise("MatchNotFoundError")
        ELSE LET v == float(Group1(contents, m))
             IN  Return(Normalize(v[1] + v[1], v[2]))

\* a routine that answers a default where the pattern is absent
parse_energy_default(contents) ==
    LET m == re_search(contents)
    IN  IF ~m.found THEN Return(<<0, 0>>)
        ELSE Return(float(Group1(contents, m)))

parse_energy(contents) ==
    LET m == re_search(contents)
    IN  IF ~m.found THEN Raise("MatchNotFoundError")
        ELSE Return(float(Group1(contents, m)))

(***************************************************************************)
(* The file system, as far as iter_files looks at it: what is at the path  *)
(* it is given.                                                            *)
(***************************************************************************)
Paths == {"calc"}
FileNames == {"orca.out", "scratch.tmp"}

FsEntries ==
    {[kind |-> "absent", files |-> {}], [kind |-> "file", files |-> {}]}
    \cup {[kind |-> "dir", files |-> F] : F \in SUBSET FileNames}

\* Path.exists() and Path.is_dir()
exists(p) == fs.kind # "absent"
is_dir(p) == fs.kind = "dir"

(***************************************************************************)
(* iter_files: a generator.  gen_pc is where it is suspended: "start"      *)
(* (created, not yet advanced), "yielded_stdout" (at the yield of line     *)
(* 50), "yielded_directory" (at the yield of line 59), "finished" (it      *)
(* returned: StopIteration), "raised" (ParserError left it).  Each action  *)
(* is one next() of the consumer: the code from one suspension to the      *)
(* next.  The consumer asks for the next artifact only at pc = "next".     *)
(***************************************************************************)
\* line 49 under a test of truthiness instead: "" counts as not given
StdoutTruthy(s) == s # None /\ s # Some(<<>>)

\* line 49: stdout is not None
StdoutGiven(s) == s # None

\* line 52 without its test
DirectoryAlways(d) == TRUE

\* line 52: directory is not None
DirectoryGiven(d) == d # None

\* line 55, negated: directory.exists() and directory.is_dir()
DirectoryOk(d) == d # None /\ exists(d[1]) /\ is_dir(d[1])

\* the generator is about to run the block of lines 52-59
AtDirectoryBlock ==
    \/ gen_pc = "start" /\ ~StdoutGiven(stdout)
    \/ gen_pc = "yielded_stdout"

YieldStdout ==
    /\ pc = "next"
    /\ gen_pc = "start"
    /\ StdoutGiven(stdout)
    /\ yielded' = Append(yielded, <<STDOUT, stdout[1]>>)
    /\ gen_pc' = "yielded_stdout"
    /\ steps' = steps + 1
    /\ pc' = "body"
    /\ UNCHANGED <<stdout, directory, fs, calls, fields, error>>

RaiseParserError ==
    /\ pc = "next"
    /\ AtDirectoryBlock
    /\ DirectoryGiven(directory)
    /\ ~DirectoryOk(directory)
    /\ gen_pc' = "raised"
    /\ steps' = steps + 1
    /\ error' = Some("ParserError")
    /\ pc' = "failed"
    /\ UNCHANGED <<stdout, directory, fs, yielded, calls, fields>>

\* a generator that yields the directory and stays where it was
YieldDirectoryAgain ==
    /\ pc = "next"
    /\ AtDirectoryBlock
    /\ DirectoryGiven(directory)
    /\ DirectoryOk(directory)
    /\ yielded' = Append(yielded, <<DIRECTORY, directory[1]>>)
    /\ steps' = steps + 1
    /\ pc' = "body"
    /\ UNCHANGED <<stdout, directory, fs, gen_pc, calls, fields, error>>

YieldDirectory ==
    /\ pc = "next"
    /\ AtDirectoryBlock
    /\ DirectoryGiven(directory)
    /\ DirectoryOk(directory)
    /\ yielded' = Append(yielded, <<DIRECTORY, directory[1]>>)
    /\ gen_pc' = "yielded_directory"
    /\ steps' = steps + 1
    /\ pc' = "body"
    /\ UNCHANGED <<stdout, directory, fs, calls, fields, error>>

\* the generator's code runs to its end
AtEnd ==
    \/ AtDirectoryBlock /\ ~DirectoryGiven(directory)
    \/ gen_pc = "yielded_directory"

Finish ==
    /\ pc = "next"
    /\ AtEnd
    /\ gen_pc' = "finished"
    /\ steps' = steps + 1
    /\ pc' = "done"
    /\ UNCHANGED <<stdout, directory, fs, yielded, calls, fields, error>>

(***************************************************************************)
(* The consumer: for each artifact of iter_files, in the order they come,  *)
(* the routines registered for the artifact's file type run on its         *)
(* contents.  parse_energy is registered for STDOUT and the target         *)
(* "energy" (lines 62-66); the request's calctype is one of those it is    *)
(* registered for.  A routine's MatchNotFoundError leaves the field        *)
(* absent; the generator's ParserError ends the request.                   *)
(***************************************************************************)
Registered(filetype) == IF filetype = STDOUT THEN {"energy"} ELSE {}

RunRoutines ==
    /\ pc = "body"
    /\ LET art == yielded[Len(yielded)]
       IN  IF "energy" \in Registered(art[1])
           THEN LET out == parse_energy(art[2])
                IN  /\ calls' = Append(calls, [contents |-> art[2], outcome |-> out])
                    /\ fields' = IF out.kind = "return"
                                 THEN fields \cup {[target |-> "energy", value |-> out.value]}
                                 ELSE fields
           ELSE UNCHANGED <<calls, fields>>
    /\ pc' = "next"
    /\ UNCHANGED <<stdout, directory, fs, gen_pc, yielded, steps, error>>

Init ==
    /\ stdout \in {None} \cup {Some(t) : t \in TextsUpTo(MaxStdoutLen)}
    /\ directory \in {None} \cup {Some(p) : p \in Paths}
    /\ fs \in FsEntries
    /\ gen_pc = "start"
    /\ yielded = <<>>
    /\ steps = 0
    /\ pc = "next"
    /\ calls = <<>>
    /\ fields = {}
    /\ error = None

Next ==
    \/ YieldStdout
    \/ RaiseParserError
    \/ YieldDirectory
    \/ Finish
    \/ RunRoutines

Spec == Init /\ [][Next]_vars

\* the consumer keeps advancing the generator and running its loop body
FairSpec == Spec /\ WF_vars(Next)

(***************************************************************************)
(* parse_energy called directly, and called again, on one text.            *)
(***************************************************************************)
InitParse ==
    /\ stdout \in {Some(t) : t \in TextsUpTo(MaxLen)}
    /\ directory = None
    /\ fs = [kind |-> "absent", files |-> {}]
    /\ gen_pc = "start"
    /\ yielded = <<>>
    /\ steps = 0
    /\ pc = "direct"
    /\ calls = <<>>
    /\ fields = {}
    /\ error = None

CallParseEnergy ==
    /\ pc = "direct"
    /\ Len(calls) < MaxCalls
    /\ calls' = Append(calls, [contents |-> stdout[1],
                               outcome |-> parse_energy(stdout[1])])
    /\ UNCHANGED <<stdout, directory, fs, gen_pc, yielded, steps, pc, fields, error>>

NextParse == CallParseEnergy

SpecParse == InitParse /\ [][NextParse]_vars

(***************************************************************************)
(* What the claims speak of, stated apart from the code's search: the      *)
(* shape of a decimal literal, its value digit by digit, and where the     *)
(* energy pattern occurs in a text.                                        *)
(***************************************************************************)
Unsigned(g) == IF g # <<>> /\ g[1] = "-" THEN Tail(g) ELSE g

DotsOf(b) == {k \in 1..Len(b) : b[k] = "."}

\* g is an optional "-", digits, and optionally a "." between digits
InShape(g) ==
    LET b == Unsigned(g)
    IN  /\ b # <<>>
        /\ \A k \in 1..Len(b) : b[k] \in Digits \cup {"."}
        /\ Cardinality(DotsOf(b)) <= 1
        /\ \A k \in DotsOf(b) : 1 < k /\ k < Len(b)

IsDigit(c) == c \in Digits

RECURSIVE Pow10(_)
Pow10(k) == IF k = 0 THEN 1 ELSE 10 * Pow10(k - 1)

RECURSIVE WeightedSum(_, _)
WeightedSum(ds, k) ==
    IF k > Len(ds) THEN 0
    ELSE DigitVal(ds[k]) * Pow10(Len(ds) - k) + WeightedSum(ds, k + 1)

\* the number a literal of the shape denotes, as <<n, e>> for n * 10^(-e),
\* not in lowest terms
LiteralValue(g) ==
    LET b    == Unsigned(g)
        mag  == WeightedSum(SelectSeq(b, IsDigit), 1)
        frac == IF DotsOf(b) = {} THEN 0
                ELSE Len(b) - (CHOOSE k \in DotsOf(b) : TRUE)
    IN  <<IF b = g THEN mag ELSE 0 - mag, frac>>

\* two decimals denote the same number
ValueEq(a, b) == a[1] * Pow10(b[2]) = b[1] * Pow10(a[2])

SetMax(S) == CHOOSE x \in S : \A y \in S : y <= x
SetMin(S) == CHOOSE x \in S : \A y \in S : x <= y

\* the ends of the literals that follow position i
LiteralEnds(s, i) == {e \in (i + 1)..Len(s) : InShape(SubSeq(s, i + 1, e))}

\* the positions of s where the marker is followed by a literal
Occurrences(s) == {i \in 1..Len(s) : s[i] = Marker /\ LiteralEnds(s, i) # {}}

\* the literal that follows the marker at i: the longest one
LiteralAt(s, i) == SubSeq(s, i + 1, SetMax(LiteralEnds(s, i)))

OccurrenceValue(s, i) == LiteralValue(LiteralAt(s, i))

Markers(s) == {i \in 1..Len(s) : s[i] = Marker}

\* what follows the marker at i, up to the next blank or marker
RECURSIVE FieldEnd(_, _)
FieldEnd(s, j) ==
    IF j <= Len(s) /\ s[j] \notin {" ", Marker} THEN FieldEnd(s, j + 1) ELSE j

FieldAfter(s, i) == SubSeq(s, i + 1, FieldEnd(s, i + 1) - 1)

\* the first marker of s is followed by something that is no literal
Malformed(s) ==
    /\ Markers(s) # {}
    /\ LET f == FieldAfter(s, SetMin(Markers(s)))
       IN  f # <<>> /\ ~InShape(f)

\* the artifacts yielded with a given file type
Tagged(t) == {k \in 1..Len(yielded) : yielded[k][1] = t}

\* orca.out is a file of a kind the program declares, scratch.tmp is not
Recognized(f) == f = "orca.out"

Terminated == gen_pc \in {"finished", "raised"}

(***************************************************************************)
(* The claims.                                                             *)
(***************************************************************************)

\* C1 (as claimed): whenever iter_files raises ParserError for a directory
\* that does not exist or is no directory, it has yielded no artifact,
\* whatever stdout is.
C1_ErrorBeforeAnyYield ==
    gen_pc = "raised" => yielded = <<>>

\* C2 (as claimed): a request that gives a path at which nothing exists ends
\* in the input error, and parse_energy has not been invoked when the error
\* is raised.
C2_NoRoutineBeforeInputError ==
    (directory # None /\ fs.kind = "absent")
        => /\ pc # "done"
           /\ pc = "failed" => (error = Some("ParserError") /\ calls = <<>>)

\* C3: on a text with more than one occurrence of the energy pattern, every
\* call of parse_energy returns the value of the leftmost occurrence, and
\* every repeated call returns what the first call returned.
C3_FirstOccurrence ==
    \A k \in 1..Len(calls) :
        LET s == calls[k].contents
            out == calls[k].outcome
        IN  Cardinality(Occurrences(s)) > 1
                => /\ out.kind = "return"
                   /\ ValueEq(out.value, OccurrenceValue(s, SetMin(Occurrences(s))))
                   /\ out = calls[1].outcome

C3_Witness ==
    /\ Len(calls) >= 2
    /\ LET s == calls[2].contents
       IN  /\ Cardinality(Occurrences(s)) > 1
           /\ ~ValueEq(OccurrenceValue(s, SetMin(Occurrences(s))),
                       OccurrenceValue(s, SetMax(Occurrences(s))))
           /\ calls[2].outcome.kind = "return"

\* C4 (as claimed): wherever in the text the marker is followed by a decimal
\* literal N, parse_energy returns exactly N.
C4_AnyOccurrence ==
    \A k \in 1..Len(calls) :
        LET s == calls[k].contents
            out == calls[k].outcome
        IN  \A i \in Occurrences(s) :
                /\ out.kind = "return"
                /\ ValueEq(out.value, OccurrenceValue(s, i))

\* C4 (amended): where the marker followed by a decimal literal N is the
\* leftmost such occurrence of the text, with any text before and after it,
\* parse_energy returns exactly the number N denotes, in lowest terms:
\* nothing is converted, scaled or cut off.
C4_FirstLiteralExact ==
    \A k \in 1..Len(calls) :
        LET s == calls[k].contents
            out == calls[k].outcome
        IN  \A i \in Occurrences(s) :
                (\A j \in Occurrences(s) : i <= j)
                    => /\ out.kind = "return"
                       /\ ValueEq(out.value, OccurrenceValue(s, i))
                       /\ out.value[2] > 0 => out.value[1] % 10 # 0

C4_Witness ==
    /\ calls # <<>>
    /\ LET s == calls[1].contents
       IN  /\ Occurrences(s) # {}
           /\ LET i == SetMin(Occurrences(s))
              IN  /\ i > 1
                  /\ SetMax(LiteralEnds(s, i)) < Len(s)
                  /\ s[i + 1] = "-"
                  /\ calls[1].outcome.kind = "return"
                  /\ calls[1].outcome.value[1] < 0

\* C5: when stdout is given, the empty string included, the first thing
\* iter_files does is yield that text tagged STDOUT, and every artifact
\* tagged DIRECTORY comes after it.
C5_StdoutFirst ==
    (stdout # None /\ gen_pc # "start")
        => /\ yielded # <<>>
           /\ yielded[1] = <<STDOUT, stdout[1]>>
           /\ \A k \in Tagged(DIRECTORY) : k > 1

C5_Witness ==
    /\ stdout = Some(<<>>)
    /\ Len(yielded) = 2
    /\ yielded[2][1] = DIRECTORY

\* C6: with neither stdout nor a directory given, iter_files yields nothing
\* and raises nothing, no routine is invoked and no field is extracted.
C6_NothingGiven ==
    (stdout = None /\ directory = None)
        => /\ yielded = <<>>
           /\ gen_pc \in {"start", "finished"}
           /\ error = None
           /\ calls = <<>>
           /\ fields = {}

C6_Witness ==
    /\ stdout = None
    /\ directory = None
    /\ gen_pc = "finished"
    /\ pc = "done"

\* C7: on a text without an occurrence of the energy pattern, every call of
\* parse_energy raises MatchNotFoundError and returns no value.
C7_AbsentRaises ==
    \A k \in 1..Len(calls) :
        Occurrences(calls[k].contents) = {}
            => /\ calls[k].outcome.kind = "raise"
               /\ calls[k].outcome.error = "MatchNotFoundError"
               /\ calls[k].outcome.value = None

C7_Witness ==
    /\ calls # <<>>
    /\ Markers(calls[1].contents) # {}
    /\ Occurrences(calls[1].contents) = {}
    /\ calls[1].outcome.kind = "raise"

\* C8 (as claimed): where the first marker of the text is followed by
\* something that is no decimal literal, parse_energy raises a failure other
\* than MatchNotFoundError and returns no value.
C8_MalformedReported ==
    \A k \in 1..Len(calls) :
        Malformed(calls[k].contents)
            => /\ calls[k].outcome.kind = "raise"
               /\ calls[k].outcome.error # "MatchNotFoundError"

\* C9 (as claimed): once iter_files has finished on a valid directory, the
\* artifacts it yielded for the directory are the recognized files of the
\* directory, one artifact each.
C9_FilesEnumerated ==
    (gen_pc = "finished" /\ directory # None)
        => LET arts == {k \in 1..Len(yielded) : yielded[k][1] # STDOUT}
               files == {f \in fs.files : Recognized(f)}
           IN  /\ {yielded[k][2] : k \in arts} = files
               /\ Cardinality(arts) = Cardinality(files)

====
